---------------------------- MODULE Spec2Model ----------------------------
(***************************************************************************)
(* A model of pyremo's export pipeline (pyremo/cmor/remo_cmor.py).         *)
(*                                                                         *)
(* Numbers are exact rationals <<numerator, denominator>> in lowest terms  *)
(* with a positive denominator, so that Python's true division "/" is      *)
(* modelled by what it computes; floating point rounding is not modelled.  *)
(* A Python call is modelled by an operator that yields a result record:   *)
(* Return(v) for a normal return, Raise(e) for an exception that leaves    *)
(* the function.                                                           *)
(***************************************************************************)
EXTENDS Integers, Sequences, FiniteSets, TLC

VARIABLES
    pc,        \* position of the call under way
    args,      \* the arguments of the call
    ds_prep,   \* cmorize_variable's local ds_prep (NoDataset while unbound)
    cmor,      \* the process-wide state of the external writer library
    warned,    \* the warnings emitted so far
    steps,     \* the steps cmorize_variable has entered, in order
    ret,       \* what the call returned or raised (Running before that)
    tasks,     \* the tasks of the array engine's graph, one per chunk
    calls      \* the invocations of the external kernel made so far

vars == <<pc, args, ds_prep, cmor, warned, steps, ret, tasks, calls>>

---------------------------------------------------------------------------
(* Bounds of the model.                                                    *)

\* longest coordinate sequence handed to _get_bnds
MaxLen == 3
\* coordinate values are drawn from 0..MaxCoord
MaxCoord == 3
\* most levels of a vertical coordinate
MaxLev == 3
MaxTime == 3
MaxWorkers == 2
MaxPos == 2

---------------------------------------------------------------------------
(* Python values.                                                          *)

\* Python's None where a number or a list is expected; <<0, 0>> is no
\* rational (denominator 0)
None == <<0, 0>>
\* Python's None where a string is expected
PyNone == "None"

\* an exception: its type or message, and the name the message is formatted
\* with
NoError == [msg |-> "", name |-> ""]
Return(v) == [ok |-> TRUE, val |-> v, err |-> NoError, warnings |-> {}]
RaiseNamed(e, n) ==
    [ok |-> FALSE, val |-> None, err |-> [msg |-> e, name |-> n], warnings |-> {}]
Raise(e) == RaiseNamed(e, "")
\* no result yet
Running == [ok |-> FALSE, val |-> None, err |-> [msg |-> "<running>", name |-> ""],
            warnings |-> {}]

Abs(n) == IF n < 0 THEN -n ELSE n

RECURSIVE GCD(_, _)
GCD(a, b) == IF b = 0 THEN a ELSE GCD(b, a % b)

\* the rational n/d (d # 0) in lowest terms with a positive denominator
Rat(n, d) ==
    LET g == GCD(Abs(n), Abs(d))
        s == IF d < 0 THEN -1 ELSE 1
    IN  <<(s * n) \div g, (s * d) \div g>>

Num(n) == Rat(n, 1)
RSub(a, b) == Rat(a[1] * b[2] - b[1] * a[2], a[2] * b[2])
RAdd(a, b) == Rat(a[1] * b[2] + b[1] * a[2], a[2] * b[2])
RMul(a, b) == Rat(a[1] * b[1], a[2] * b[2])
\* Python's a / b on numbers (b # 0)
RDiv(a, b) == Rat(a[1] * b[2], a[2] * b[1])
RLt(a, b) == a[1] * b[2] < b[1] * a[2]
RLe(a, b) == a[1] * b[2] <= b[1] * a[2]

\* Python's seq[i] on a sequence of length Len(seq): 0-based, negative
\* indices count from the end
PyIndex(seq, i) == IF i < 0 THEN seq[Len(seq) + i + 1] ELSE seq[i + 1]
PyInRange(seq, i) == -Len(seq) <= i /\ i < Len(seq)

---------------------------------------------------------------------------
(* _get_bnds: cell boundaries from midpoints.                              *)

\* values[0] - (values[1] - values[0]) / 2
first_bnd_plus(values) ==
    RAdd(PyIndex(values, 0),
         RDiv(RSub(PyIndex(values, 1), PyIndex(values, 0)), Num(2)))
first_bnd(values) ==
    RSub(PyIndex(values, 0),
         RDiv(RSub(PyIndex(values, 1), PyIndex(values, 0)), Num(2)))

\* values[-1] + (values[-1] - values[-2]) / 2
last_bnd(values) ==
    RAdd(PyIndex(values, -1),
         RDiv(RSub(PyIndex(values, -1), PyIndex(values, -2)), Num(2)))

\* values[i] - (values[i] - values[i - 1]) / 2
interior_bnd_full_step(values, i) ==
    RSub(PyIndex(values, i), RSub(PyIndex(values, i), PyIndex(values, i - 1)))
interior_bnd(values, i) ==
    RSub(PyIndex(values, i),
         RDiv(RSub(PyIndex(values, i), PyIndex(values, i - 1)), Num(2)))

\* the first index the while loop fills
bnds_loop_start_late == 1 + 1
bnds_loop_start == 1

\* while i < len(values): bnds[i] = ...; i += 1
RECURSIVE bnds_loop(_, _, _)
bnds_loop(values, bnds, i) ==
    IF i < Len(values)
    THEN bnds_loop(values, [bnds EXCEPT ![i + 1] = interior_bnd(values, i)], i + 1)
    ELSE bnds

\* bnds is a Python list of len(values) + 1 entries, here the sequence
\* bnds[1..N+1] holding Python's bnds[0..N]
_get_bnds(values) ==
    LET N == Len(values)
        b0 == [k \in 1..(N + 1) |-> None]
    IN  IF ~PyInRange(values, 0) \/ ~PyInRange(values, 1)
        THEN Raise("IndexError")
        ELSE LET b1 == [b0 EXCEPT ![1] = first_bnd(values)]
                 b2 == [b1 EXCEPT ![N + 1] = last_bnd(values)]
             IN  Return(bnds_loop(values, b2, bnds_loop_start))

---------------------------------------------------------------------------
(* _resample.  The resampling itself is xarray's; the result of the model  *)
(* is the request made to it.                                              *)

\* loffsets, as "H:MM:SS"
loffsets == ("3H" :> "1:30:00") @@ ("6H" :> "3:00:00")

\* loffsets.get(time, None)
_get_loffset(time) == IF time \in DOMAIN loffsets THEN loffsets[time] ELSE PyNone

\* the branch of the if / elif / else chain
resample_branch_mean_default(time_cell_method) ==
    IF time_cell_method = "point" THEN "point" ELSE "mean"
resample_branch(time_cell_method) ==
    IF time_cell_method = "point" THEN "point"
    ELSE IF time_cell_method = "mean" THEN "mean"
    ELSE "else"

_resample(ds, time, time_cell_method, label, time_offset) ==
    LET branch == resample_branch(time_cell_method)
    IN  IF branch = "point"
        THEN Return([ds |-> ds, time |-> time, label |-> label, loffset |-> PyNone,
                     reduce |-> "interpolate(nearest)"])
        ELSE IF branch = "mean"
        THEN LET loffset == IF time_offset = "True" THEN _get_loffset(time) ELSE PyNone
             IN  Return([ds |-> ds, time |-> time, label |-> label,
                         loffset |-> loffset, reduce |-> "mean"])
        ELSE RaiseNamed("unknown time_cell_method: {}", time_cell_method)

---------------------------------------------------------------------------
(* Datasets.  A dataset is a record                                        *)
(*   data          the data variable it holds: [name, units, values], or   *)
(*                 NoData; values maps each grid point <<rlon, rlat>> to a *)
(*                 number                                                  *)
(*   pole          whether it holds a rotated-pole descriptor              *)
(*   CORDEX_domain its global attribute of that name, NoAttr when absent   *)
(*   time          its time coordinate values, NoTime when it has no time  *)
(*   rlon, rlat    its rotated coordinates, in increasing order            *)

NoAttr == "<no attribute>"
NoData == [name |-> "<no variable>", units |-> NoAttr, values |-> <<>>]
NoTime == <<>>
\* the unbound local ds_prep
NoDataset ==
    [data |-> NoData, pole |-> FALSE, CORDEX_domain |-> NoAttr,
     time |-> NoTime, rlon |-> <<>>, rlat |-> <<>>]

WithWarnings(r, w) == [r EXCEPT !.warnings = @ \cup w]

\* a warning: its message and the two values it is formatted with
Warning(msg, x, y) == [msg |-> msg, x |-> x, y |-> y]
NoDomainWarning == Warning("could not identify CORDEX domain", "", "")

\* the name-mapping table behind _get_varinfo: requested name -> raw REMO
\* name and CF name
VarTable == [tas |-> [variable |-> "TEMP2", cf_name |-> "tas"]]

\* utils._get_varinfo: the table entry, None for a name the table lacks
NoVarinfo == [variable |-> PyNone, cf_name |-> PyNone]
_get_varinfo(varname) ==
    IF varname \in DOMAIN VarTable THEN VarTable[varname] ELSE NoVarinfo

\* the derivation registry: derived name -> the raw variable it needs
Derivations == [pr |-> "APRL", tas |-> "APRL"]

\* derivator.derive(ds, varname): the derived variable, named varname
derive(ds, varname) ==
    IF varname \in DOMAIN Derivations
       /\ ds.data # NoData
       /\ ds.data.name = Derivations[varname]
    THEN Return([ds.data EXCEPT !.name = varname])
    ELSE Raise("KeyError")

\* utils._get_pole(ds): the rotated-pole descriptor of the dataset
_get_pole(ds) == IF ds.pole THEN Return(TRUE) ELSE Raise("KeyError")

\* ds[name]
getitem(ds, name) ==
    IF ds.data # NoData /\ ds.data.name = name
    THEN Return(ds.data)
    ELSE Raise("KeyError")

\* the domain registry behind cx.cordex_domain: rlon and rlat of each domain
DomainTable ==
    [EUR |-> [rlon |-> <<Num(1), Num(2)>>, rlat |-> <<Num(1), Num(2)>>],
     AFR |-> [rlon |-> <<Num(0), Num(1)>>, rlat |-> <<Num(0), Num(1)>>]]

cordex_domain(domain) ==
    IF domain \in DOMAIN DomainTable
    THEN Return(DomainTable[domain])
    ELSE Raise("KeyError")

RECURSIVE SeqMin(_)
SeqMin(q) ==
    IF Len(q) = 1 THEN q[1]
    ELSE LET m == SeqMin(Tail(q)) IN IF RLt(q[1], m) THEN q[1] ELSE m

RECURSIVE SeqMax(_)
SeqMax(q) ==
    IF Len(q) = 1 THEN q[1]
    ELSE LET m == SeqMax(Tail(q)) IN IF RLt(m, q[1]) THEN q[1] ELSE m

\* coords.sel(slice(lo, hi)) on an increasing coordinate: label slices keep
\* both end points
sel_slice_half_open(coords, lo, hi) ==
    SelectSeq(coords, LAMBDA c : RLe(lo, c) /\ RLt(c, hi))
sel_slice(coords, lo, hi) ==
    SelectSeq(coords, LAMBDA c : RLe(lo, c) /\ RLe(c, hi))

Range(q) == {q[i] : i \in 1..Len(q)}

\* the dataset restricted to the grid points of rlon x rlat
restrict(ds, rlon, rlat) ==
    [ds EXCEPT
        !.rlon = rlon,
        !.rlat = rlat,
        !.data = IF ds.data = NoData THEN NoData
                 ELSE [ds.data EXCEPT
                          !.values = [p \in Range(rlon) \X Range(rlat) |-> @[p]]]]

_crop_to_cordex_domain(ds, domain) ==
    LET dm == cordex_domain(domain)
    IN  IF ~dm.ok THEN dm
        ELSE Return(restrict(ds,
                 sel_slice(ds.rlon, SeqMin(dm.val.rlon), SeqMax(dm.val.rlon)),
                 sel_slice(ds.rlat, SeqMin(dm.val.rlat), SeqMax(dm.val.rlat))))

\* var_ds.squeeze(drop=True): a dimension of length one is dropped with its
\* coordinate; the grids of the model have at least two points a side
squeeze_drop(ds) ==
    IF ds.time # NoTime /\ Len(ds.time) = 1 THEN [ds EXCEPT !.time = NoTime] ELSE ds

\* utils._set_time_units(ds.time, time_units): needs ds.time
_set_time_units(ds) ==
    IF ds.time = NoTime THEN Raise("AttributeError") ELSE Return(ds.time)

\* lines 219-223: the domain the call works with, and the warning
resolve_domain(ds, CORDEX_domain) ==
    IF CORDEX_domain = PyNone
    THEN IF ds.CORDEX_domain # NoAttr
         THEN Return(ds.CORDEX_domain)
         ELSE WithWarnings(Return(PyNone), {NoDomainWarning})
    ELSE Return(CORDEX_domain)

\* allow_derive is True
derive_requested_if_truthy(allow_derive) == allow_derive # "False"
derive_requested(allow_derive) == allow_derive = "True"

\* lines 224-238: the variable, merged with the pole and renamed
resolve_variable(ds, varname, allow_derive) ==
    LET varinfo == _get_varinfo(varname)
    IN  IF varinfo # NoVarinfo
        THEN LET v == getitem(ds, varinfo.variable)
                 pole == _get_pole(ds)
             IN  IF ~v.ok THEN v
                 ELSE IF ~pole.ok THEN pole
                 ELSE Return([ds EXCEPT !.data = [v.val EXCEPT !.name = varinfo.cf_name]])
        ELSE IF derive_requested(allow_derive)
        THEN LET v == derive(ds, varname)
                 pole == _get_pole(ds)
             IN  IF ~v.ok \/ ~pole.ok
                 THEN RaiseNamed("could not find or derive variable: {}", varname)
                 ELSE Return([ds EXCEPT !.data = v.val])
        ELSE RaiseNamed("could not find {} in remo table, try allow_derive=True",
                        varname)

prepare_variable(ds, varname, CORDEX_domain, time_units, squeeze, allow_derive) ==
    LET dom == resolve_domain(ds, CORDEX_domain)
        var == resolve_variable(ds, varname, allow_derive)
        sq == IF squeeze THEN squeeze_drop(var.val) ELSE var.val
        tm == _set_time_units(ds)
        timed == IF time_units # PyNone THEN [sq EXCEPT !.time = tm.val] ELSE sq
        crop == IF dom.val # PyNone
                THEN _crop_to_cordex_domain(timed, dom.val)
                ELSE Return(timed)
    IN  IF ~var.ok THEN WithWarnings(var, dom.warnings)
        ELSE IF time_units # PyNone /\ ~tm.ok THEN WithWarnings(tm, dom.warnings)
        ELSE WithWarnings(crop, dom.warnings)

---------------------------------------------------------------------------
(* _units_convert.  A metadata table maps a variable name to its entry.    *)

SecondsPerDay == 86400

\* lambda x: x * 1.0 / 86400.0
rule_mm_per_hour(x) == RDiv(RMul(x, Num(1)), Num(SecondsPerDay \div 24))
rule_mm(x) == RDiv(RMul(x, Num(1)), Num(SecondsPerDay))
\* lambda x: x
rule_kgkg(x) == x

\* units_convert_rules: source units -> (conversion, new units)
units_convert_rules ==
    ("mm" :> [rule |-> "mm", units |-> "kg m-2 s-1"])
    @@ ("kg/kg" :> [rule |-> "kg/kg", units |-> "1"])

\* units_convert_rules[units]
lookup_rule_or_keep(units) ==
    IF units \in DOMAIN units_convert_rules
    THEN Return(units_convert_rules[units])
    ELSE Return([rule |-> "kg/kg", units |-> units])
lookup_rule(units) ==
    IF units \in DOMAIN units_convert_rules
    THEN Return(units_convert_rules[units])
    ELSE Raise("KeyError")

\* rule[0](da): the conversion applied to every value, attributes kept
apply_rule(rule, da) ==
    [da EXCEPT !.values = [p \in DOMAIN @ |->
                              IF rule = "mm" THEN rule_mm(@[p]) ELSE rule_kgkg(@[p])]]

\* units != cf_units
units_differ_always(units, cf_units) == TRUE
units_differ(units, cf_units) == units # cf_units

_units_convert(da, table) ==
    IF da.units = NoAttr THEN Raise("AttributeError")
    ELSE IF da.name \notin DOMAIN table THEN Raise("KeyError")
    ELSE LET units == da.units
             cf_units == table[da.name].units
             rule == lookup_rule(units)
             w == {Warning("converting units {} to {}", units, cf_units)}
         IN  IF units_differ(units, cf_units)
             THEN IF ~rule.ok THEN WithWarnings(rule, w)
                  ELSE WithWarnings(
                           Return([apply_rule(rule.val.rule, da)
                                       EXCEPT !.units = rule.val.units]), w)
             ELSE Return(da)

---------------------------------------------------------------------------
(* The calls of the pure functions: the arguments are drawn in the initial *)
(* state, the one action applies the function.                             *)

\* the writer library after import: no session, nothing written
NoAxes == [time |-> None, lat |-> None, lon |-> None]
CmorInit ==
    [setups |-> 0, closes |-> 0, dataset_json |-> FALSE, axes |-> NoAxes,
     written |-> NoData, files |-> <<>>]

Idle == /\ ds_prep = NoDataset
        /\ cmor = CmorInit
        /\ warned = {}
        /\ steps = <<>>
        /\ ret = Running
        /\ tasks = <<>>
        /\ calls = {}

RECURSIVE SeqsUpTo(_, _)
\* the sequences over S of length at most n
SeqsUpTo(S, n) ==
    IF n = 0 THEN {<<>>}
    ELSE LET shorter == SeqsUpTo(S, n - 1)
         IN  shorter \cup {Append(q, x) : q \in {r \in shorter : Len(r) = n - 1}, x \in S}

Coords == {Num(c) : c \in 0..MaxCoord}

InitBnds ==
    /\ pc = "call"
    /\ args \in [values : SeqsUpTo(Coords, MaxLen)]
    /\ Idle

get_bnds_call ==
    /\ pc = "call"
    /\ pc' = "returned"
    /\ ret' = _get_bnds(args.values)
    /\ UNCHANGED <<args, ds_prep, cmor, warned, steps, tasks, calls>>

NextBnds == get_bnds_call

SpecBnds == InitBnds /\ [][NextBnds]_vars

\* the grid coordinates lo, lo+1, .. hi
GridSeq(lo, hi) == [i \in 1..(hi - lo + 1) |-> Num(lo + i - 1)]
\* the grids of the model: at least two points, within 0..MaxCoord
Grids == {g \in {GridSeq(lo, hi) : lo \in 0..MaxCoord, hi \in 1..MaxCoord} : Len(g) >= 2}

\* a field on the grid rlon x rlat, different at every point
Field(rlon, rlat, b) ==
    [p \in Range(rlon) \X Range(rlat) |-> RAdd(Num(b), RMul(p[1], RAdd(p[2], Num(2))))]

Datasets(names, units, bases, domains, times, rlons, rlats, poles) ==
    {[data |-> IF n = NoData.name THEN NoData
               ELSE [name |-> n, units |-> u, values |-> Field(x, y, b)],
      pole |-> po, CORDEX_domain |-> d, time |-> t, rlon |-> x, rlat |-> y] :
        n \in names, u \in units, b \in bases, d \in domains, t \in times,
        x \in rlons, y \in rlats, po \in poles}

DefaultTimeUnits == "days since 1949-12-01T00:00:00"
Times == {NoTime, <<Num(0)>>, <<Num(0), Num(1)>>}

InitPrepare ==
    /\ pc = "call"
    /\ args \in [ds : Datasets({"TEMP2", "APRL", NoData.name}, {"K"}, {0},
                               {NoAttr, "AFR"}, Times, Grids, Grids, BOOLEAN),
                 varname : {"tas", "pr", "xyz"},
                 CORDEX_domain : {PyNone, "EUR", "XXX"},
                 time_units : {PyNone, DefaultTimeUnits},
                 squeeze : BOOLEAN,
                 allow_derive : {"True", "False", "1"}]
    /\ Idle

prepare_variable_call ==
    /\ pc = "call"
    /\ pc' = "returned"
    /\ ret' = prepare_variable(args.ds, args.varname, args.CORDEX_domain,
                               args.time_units, args.squeeze, args.allow_derive)
    /\ warned' = ret'.warnings
    /\ UNCHANGED <<args, ds_prep, cmor, steps, tasks, calls>>

NextPrepare == prepare_variable_call

SpecPrepare == InitPrepare /\ [][NextPrepare]_vars

Units == {"mm", "kg/kg", "kg m-2 s-1", "1", "K", "m", NoAttr}
\* a table with the one entry name -> units
TableOf(name, units) == name :> [units |-> units]
EmptyTable == <<>>
Tables(name) ==
    {TableOf(name, u) : u \in {"kg m-2 s-1", "1", "K", "mm"}} \cup {EmptyTable}

InitUnits ==
    /\ pc = "call"
    /\ args \in [da : {[name |-> "pr", units |-> u, values |-> Field(x, GridSeq(0, 1), b)] :
                           u \in Units, x \in Grids, b \in {0, 5, SecondsPerDay}},
                 table : Tables("pr")]
    /\ Idle

units_convert_call ==
    /\ pc = "call"
    /\ pc' = "returned"
    /\ ret' = _units_convert(args.da, args.table)
    /\ warned' = ret'.warnings
    /\ UNCHANGED <<args, ds_prep, cmor, steps, tasks, calls>>

NextUnits == units_convert_call

SpecUnits == InitUnits /\ [][NextUnits]_vars

InitResample ==
    /\ pc = "call"
    /\ args \in [ds : Times \ {NoTime},
                 time : {"3H", "6H", "D"},
                 time_cell_method : {"point", "mean", "sum", "max", "Mean", PyNone},
                 label : {"left", "right"},
                 time_offset : {"True", "False", "1"}]
    /\ Idle

resample_call ==
    /\ pc = "call"
    /\ pc' = "returned"
    /\ ret' = _resample(args.ds, args.time, args.time_cell_method, args.label,
                        args.time_offset)
    /\ UNCHANGED <<args, ds_prep, cmor, warned, steps, tasks, calls>>

NextResample == resample_call

SpecResample == InitResample /\ [][NextResample]_vars

---------------------------------------------------------------------------
(* cmorize_variable.  Each step of its body is an action; a step that      *)
(* raises ends the call, the exception being what the caller gets.  The    *)
(* calls into the writer library may raise for reasons outside this code,  *)
(* which the actions leave open.                                           *)

\* the step after prepare_variable: allow_units_convert is True
after_prepare_always_units(allow_units_convert) == "units"
after_prepare(allow_units_convert) ==
    IF allow_units_convert = "True" THEN "units" ELSE "setup"

\* an exception leaves cmorize_variable
raise_to_caller(r) ==
    /\ pc' = "failed"
    /\ ret' = r

\* cmor.setup(...)
cmor_setup(c) == [c EXCEPT !.setups = @ + 1]
\* cmor.dataset_json(table)
cmor_dataset_json(c) == [c EXCEPT !.dataset_json = TRUE]
\* cmor.close(cmor_var, file_name=True): closes the file and yields its path
cmor_close(c, da) ==
    [c EXCEPT !.closes = @ + 1, !.files = Append(@, [variable |-> da.name])]

\* _define_axes: the cell bounds of the time axis (None without time), of
\* rlat and of rlon
_define_axes(ds) ==
    LET t == IF ds.time # NoTime THEN _get_bnds(ds.time) ELSE Return(None)
        lat == _get_bnds(ds.rlat)
        lon == _get_bnds(ds.rlon)
    IN  IF ~t.ok THEN t
        ELSE IF ~lat.ok THEN lat
        ELSE IF ~lon.ok THEN lon
        ELSE Return([time |-> t.val, lat |-> lat.val, lon |-> lon.val])

Init ==
    /\ pc = "prepare"
    /\ args \in [ds : Datasets({"TEMP2", NoData.name}, {"K", "mm", "kg/kg", "m", "1"},
                               {0, SecondsPerDay}, {NoAttr},
                               {NoTime, <<Num(0), Num(1)>>}, Grids,
                               {GridSeq(0, MaxCoord)}, {TRUE}),
                 varname : {"tas", "xyz"},
                 cmor_table : Tables("tas"),
                 allow_units_convert : {"True", "False", "1"},
                 CORDEX_domain : {PyNone, "EUR"},
                 time_units : {PyNone, DefaultTimeUnits},
                 squeeze : {TRUE},
                 allow_derive : {"False"}]
    /\ Idle

\* line 286
step_prepare ==
    /\ pc = "prepare"
    /\ steps' = Append(steps, "prepare")
    /\ LET r == prepare_variable(args.ds, args.varname, args.CORDEX_domain,
                                 args.time_units, args.squeeze, args.allow_derive)
       IN  /\ warned' = warned \cup r.warnings
           /\ IF r.ok
              THEN /\ ds_prep' = r.val
                   /\ pc' = after_prepare(args.allow_units_convert)
                   /\ UNCHANGED ret
              ELSE /\ raise_to_caller(r)
                   /\ UNCHANGED ds_prep
    /\ UNCHANGED <<args, cmor, tasks, calls>>

\* line 288
step_units_convert ==
    /\ pc = "units"
    /\ steps' = Append(steps, "units")
    /\ LET da == getitem(ds_prep, args.varname)
           r == IF da.ok THEN _units_convert(da.val, args.cmor_table) ELSE da
       IN  /\ warned' = warned \cup r.warnings
           /\ IF r.ok
              THEN /\ ds_prep' = [ds_prep EXCEPT !.data = r.val]
                   /\ pc' = "setup"
                   /\ UNCHANGED ret
              ELSE /\ raise_to_caller(r)
                   /\ UNCHANGED ds_prep
    /\ UNCHANGED <<args, cmor, tasks, calls>>

\* line 289: _setup
step_setup ==
    /\ pc = "setup"
    /\ steps' = Append(steps, "setup")
    /\ \E outcome \in {"ok", "setup raises", "dataset_json raises"} :
          IF outcome = "ok"
          THEN /\ cmor' = cmor_dataset_json(cmor_setup(cmor))
               /\ pc' = "grid"
               /\ UNCHANGED ret
          ELSE /\ cmor' = IF outcome = "setup raises" THEN cmor ELSE cmor_setup(cmor)
               /\ raise_to_caller(Raise("cmor error"))
    /\ UNCHANGED <<args, ds_prep, warned, tasks, calls>>

\* line 290: _define_grid
step_define_grid ==
    /\ pc = "grid"
    /\ steps' = Append(steps, "grid")
    /\ LET axes == _define_axes(ds_prep)
           pole == _get_pole(ds_prep)
       IN  \E outcome \in {"ok", "cmor raises"} :
              IF outcome = "cmor raises"
              THEN raise_to_caller(Raise("cmor error")) /\ UNCHANGED cmor
              ELSE IF ~axes.ok THEN raise_to_caller(axes) /\ UNCHANGED cmor
              ELSE IF ~pole.ok THEN raise_to_caller(pole) /\ UNCHANGED cmor
              ELSE /\ cmor' = [cmor EXCEPT !.axes = axes.val]
                   /\ pc' = "write"
                   /\ UNCHANGED ret
    /\ UNCHANGED <<args, ds_prep, warned, tasks, calls>>

\* line 291: _cmor_write
step_write ==
    /\ pc = "write"
    /\ steps' = Append(steps, "write")
    /\ LET da == getitem(ds_prep, args.varname)
       IN  \E outcome \in {"ok", "cmor raises"} :
              IF ~da.ok THEN raise_to_caller(da) /\ UNCHANGED cmor
              ELSE IF outcome = "cmor raises"
              THEN raise_to_caller(Raise("cmor error")) /\ UNCHANGED cmor
              ELSE /\ cmor' = cmor_close([cmor EXCEPT !.written = da.val], da.val)
                   /\ pc' = "done"
                   /\ ret' = Return([variable |-> da.val.name])
    /\ UNCHANGED <<args, ds_prep, warned, tasks, calls>>

Next ==
    \/ step_prepare
    \/ step_units_convert
    \/ step_setup
    \/ step_define_grid
    \/ step_write

Spec == Init /\ [][Next]_vars

---------------------------------------------------------------------------
(* get_vc (pyremo/preproc/core.py).  The dataset is a record               *)
(*   bnds      its bound variables: name -> array, an array being the      *)
(*             sequence of the rows <<lower, upper>> of its levels         *)
(*   positive  the "positive" attribute of its lev coordinate, NoAttr      *)
(*             when absent                                                 *)

ak_valid == <<"ap_bnds", "a_bnds">>
bk_valid == <<"b_bnds">>

\* for name in valid: if name in ds: bnds = ds[name]; the last name found
\* stays
RECURSIVE find_bnds(_, _, _, _)
find_bnds(ds, valid, i, found) ==
    IF i > Len(valid) THEN found
    ELSE find_bnds(ds, valid, i + 1,
                   IF valid[i] \in DOMAIN ds.bnds
                   THEN [found |-> TRUE, val |-> ds.bnds[valid[i]]]
                   ELSE found)

NotFound == [found |-> FALSE, val |-> <<>>]

\* bnds[:, 1]
column1(bnds) == [k \in 1..Len(bnds) |-> bnds[k][2]]

\* np.flip
flip(q) == [k \in 1..Len(q) |-> q[Len(q) + 1 - k]]

\* the first index of the slice that is assigned: ak[:-1] or ak[1:]
vc_offset_zero(positive) == 0
vc_offset(positive) == IF positive = "down" THEN 0 ELSE 1

\* a[offset : offset + len(q)] = q, on the 0-based array a
assign_slice(a, offset, q) ==
    [k \in 1..Len(a) |->
        IF offset < k /\ k <= offset + Len(q) THEN q[k - offset] ELSE a[k]]

\* np.zeros([n]), np.ones([n])
zeros(n) == [k \in 1..n |-> Num(0)]
ones(n) == [k \in 1..n |-> Num(1)]

get_vc(ds) ==
    LET ak_bnds == find_bnds(ds, ak_valid, 1, NotFound)
        bk_bnds == find_bnds(ds, bk_valid, 1, NotFound)
        nlev == Len(ak_bnds.val)
        ak == zeros(nlev + 1)
        bk == ones(nlev + 1)
        offset == vc_offset(ds.positive)
    IN  IF ~ak_bnds.found THEN Raise("AttributeError")
        ELSE IF ds.positive = NoAttr THEN Raise("AttributeError")
        ELSE IF ~bk_bnds.found THEN Raise("TypeError")
        ELSE IF Len(bk_bnds.val) # nlev THEN Raise("ValueError")
        ELSE Return([ak |-> assign_slice(ak, offset, flip(column1(ak_bnds.val))),
                     bk |-> assign_slice(bk, offset, flip(column1(bk_bnds.val)))])

\* the bounds of n levels whose half levels are base, base + 1, ..., stored
\* from the first to the last or the other way round
Bnds(n, base, descending) ==
    [k \in 1..n |->
        IF descending
        THEN <<Num(base + n - k + 1), Num(base + n - k)>>
        ELSE <<Num(base + k - 1), Num(base + k)>>]

\* the function with the domain names that maps name to f[name]
Restrict(f, names) == [n \in names |-> f[n]]

VcDatasets ==
    {[bnds |-> Restrict([ap_bnds |-> Bnds(n, 10, d), a_bnds |-> Bnds(n, 20, d),
                         b_bnds |-> Bnds(m, 30, d)], names),
      positive |-> p] :
        n \in 1..MaxLev, m \in 1..MaxLev, d \in BOOLEAN,
        names \in SUBSET {"ap_bnds", "a_bnds", "b_bnds"},
        p \in {"down", "up", "", NoAttr}}

InitVc ==
    /\ pc = "call"
    /\ args \in [ds : VcDatasets]
    /\ Idle

get_vc_call ==
    /\ pc = "call"
    /\ pc' = "returned"
    /\ ret' = get_vc(args.ds)
    /\ UNCHANGED <<args, ds_prep, cmor, warned, steps, tasks, calls>>

NextVc == get_vc_call

SpecVc == InitVc /\ [][NextVc]_vars

---------------------------------------------------------------------------
(* convert_units (pyremo/preproc/core.py).  The dataset is a record of the *)
(* variables sftlf, tos and orog, each [present, units, values]: units is  *)
(* NoAttr without a units attribute, values is the sequence of its values. *)

NoVar == [present |-> FALSE, units |-> NoAttr, values |-> <<>>]

\* const.grav_const; the product with it leaves the integers of the model
\* checker and is kept as the pair of its factors
grav_const == "9.806805923"
\* const.absolute_zero
absolute_zero == Rat(2735, 10)

\* the integer 1 as a units attribute
PyInt1 == "1 (int)"

\* ds.sftlf * 0.01
to_fraction_by_ten(x) == RMul(x, Rat(1, 10))
to_fraction(x) == RMul(x, Rat(1, 100))
\* ds.tos + const.absolute_zero
to_kelvin(x) == RAdd(x, absolute_zero)
\* ds.orog * const.grav_const
to_geopotential(x) == [factor |-> x, times |-> grav_const]

\* ds.<var>.units raises AttributeError without the variable or the attribute
units_raises(var) == ~var.present \/ var.units = NoAttr

\* the body of one try block, entered with units_raises(var) false
converted(var, from, values, to) ==
    IF var.units = from THEN [var EXCEPT !.values = values, !.units = to] ELSE var

\* ds.sftlf * 0.01, ds.tos + const.absolute_zero, ds.orog * const.grav_const
sftlf_fraction(var) == [k \in 1..Len(var.values) |-> to_fraction(var.values[k])]
tos_kelvin(var) == [k \in 1..Len(var.values) |-> to_kelvin(var.values[k])]
orog_geopotential(var) ==
    [k \in 1..Len(var.values) |-> to_geopotential(var.values[k])]

SftlfWarning == Warning("sftlf has no units attribute, must be fractional.", "", "")
TosWarning == Warning("tos has no units attribute, must be Kelvin!", "", "")
OrogWarning == Warning("orog has no units attribute, must be m2 s-2", "", "")

\* the three conversions in one try block: the first exception skips the rest
convert_units_one_try(ds) ==
    IF units_raises(ds.sftlf) THEN WithWarnings(Return(ds), {SftlfWarning})
    ELSE LET d1 == [ds EXCEPT !.sftlf = converted(@, "%", sftlf_fraction(@), PyInt1)]
         IN  IF units_raises(ds.tos) THEN WithWarnings(Return(d1), {TosWarning})
             ELSE LET d2 == [d1 EXCEPT !.tos = converted(@, "degC", tos_kelvin(@), "K")]
                  IN  IF units_raises(ds.orog)
                      THEN WithWarnings(Return(d2), {OrogWarning})
                      ELSE Return([d2 EXCEPT !.orog =
                               converted(@, "m", orog_geopotential(@), "m2 s-2")])

\* three try blocks in sequence, each with its own except: warn
convert_units(ds) ==
    LET d1 == IF units_raises(ds.sftlf) THEN ds
              ELSE [ds EXCEPT !.sftlf = converted(@, "%", sftlf_fraction(@), PyInt1)]
        d2 == IF units_raises(ds.tos) THEN d1
              ELSE [d1 EXCEPT !.tos = converted(@, "degC", tos_kelvin(@), "K")]
        d3 == IF units_raises(ds.orog) THEN d2
              ELSE [d2 EXCEPT !.orog = converted(@, "m", orog_geopotential(@), "m2 s-2")]
        w == (IF units_raises(ds.sftlf) THEN {SftlfWarning} ELSE {})
             \cup (IF units_raises(ds.tos) THEN {TosWarning} ELSE {})
             \cup (IF units_raises(ds.orog) THEN {OrogWarning} ELSE {})
    IN  WithWarnings(Return(d3), w)

\* the variables of the model: absent, or with each of the units and values
VarsWith(units, values) ==
    {NoVar} \cup {[present |-> TRUE, units |-> u, values |-> v] :
                      u \in units, v \in values}

InitConvert ==
    /\ pc = "call"
    /\ args \in [ds : [sftlf : VarsWith({NoAttr, "%", "1"},
                                        {<<Num(a), Num(b)>> : a, b \in {0, 50, 100}}),
                       tos : VarsWith({NoAttr, "degC", "K"}, {<<Num(0), Num(20)>>}),
                       orog : VarsWith({NoAttr, "m", "m2 s-2"}, {<<Num(0), Num(3)>>})]]
    /\ Idle

convert_units_call ==
    /\ pc = "call"
    /\ pc' = "returned"
    /\ ret' = convert_units(args.ds)
    /\ warned' = ret'.warnings
    /\ UNCHANGED <<args, ds_prep, cmor, steps, tasks, calls>>

NextConvert == convert_units_call

SpecConvert == InitConvert /\ [][NextConvert]_vars

---------------------------------------------------------------------------
(* geopotential, relative_humidity and interpolate_vertical                *)
(* (pyremo/preproc/core.py): each hands an external kernel to              *)
(* xr.apply_ufunc with dask="parallelized".  The input is the sequence of  *)
(* its slices along the outer (time) dimension, cut into chunks; the array *)
(* engine makes one task per chunk and runs the tasks on its workers in    *)
(* any order.                                                              *)

\* the kernel and the vectorize keyword of the three xr.apply_ufunc calls
ufunc_geopotential == [kernel |-> "intf.geopotential", vectorize |-> FALSE]
ufunc_relative_humidity == [kernel |-> "intf.relative_humidity", vectorize |-> TRUE]
ufunc_interpolate_vertical == [kernel |-> "intf.interp_vert", vectorize |-> TRUE]

ufunc(fn) ==
    CASE fn = "geopotential" -> ufunc_geopotential
      [] fn = "relative_humidity" -> ufunc_relative_humidity
      [] fn = "interpolate_vertical" -> ufunc_interpolate_vertical

\* what the external kernel returns for one slice holding the core dimensions
kernel_result(kernel, x) == [kernel |-> kernel, of |-> x]

\* one task per chunk of the outer dimension, over the indices lo..hi
RECURSIVE blocks(_, _)
blocks(chunks, lo) ==
    IF chunks = <<>> THEN <<>>
    ELSE <<[lo |-> lo, hi |-> lo + Head(chunks) - 1, state |-> "pending",
            next |-> lo, out |-> <<>>]>>
         \o blocks(Tail(chunks), lo + Head(chunks))

\* the blocks of the result put together in the order of their chunks
RECURSIVE concatenate(_)
concatenate(ts) ==
    IF ts = <<>> THEN <<>> ELSE Head(ts).out \o concatenate(Tail(ts))

RECURSIVE Sum(_)
Sum(q) == IF q = <<>> THEN 0 ELSE Head(q) + Sum(Tail(q))

\* the ways of cutting an outer dimension of length n into chunks
Chunkings(n) == {c \in UNION {[1..m -> 1..n] : m \in 1..n} : Sum(c) = n}

InitDispatch ==
    /\ pc = "call"
    /\ \E n \in 1..MaxTime :
          args \in [fn : {"geopotential", "relative_humidity", "interpolate_vertical"},
                    input : [1..n -> 1..2],
                    chunks : Chunkings(n),
                    workers : 1..MaxWorkers]
    /\ Idle

\* xr.apply_ufunc builds the graph
apply_ufunc_call ==
    /\ pc = "call"
    /\ pc' = "computing"
    /\ tasks' = blocks(args.chunks, 1)
    /\ UNCHANGED <<args, ds_prep, cmor, warned, steps, ret, calls>>

\* a free worker takes a task
start_task ==
    /\ pc = "computing"
    /\ Cardinality({j \in 1..Len(tasks) : tasks[j].state = "running"}) < args.workers
    /\ \E i \in 1..Len(tasks) :
          /\ tasks[i].state = "pending"
          /\ tasks' = [tasks EXCEPT ![i].state = "running"]
    /\ UNCHANGED <<pc, args, ds_prep, cmor, warned, steps, ret, calls>>

\* vectorize=True: the task loops over the outer indices of its chunk and
\* passes the kernel one slice of the core dimensions at a time
invoke_kernel_vectorized ==
    /\ pc = "computing"
    /\ ufunc(args.fn).vectorize
    /\ \E i \in 1..Len(tasks) :
          LET t == tasks[i]
              out == Append(t.out, kernel_result(ufunc(args.fn).kernel,
                                                 args.input[t.next]))
          IN  /\ t.state = "running"
              /\ calls' = calls \cup {[task |-> i, outer |-> <<t.next>>,
                                       core_only |-> TRUE]}
              /\ tasks' = [tasks EXCEPT ![i] =
                              [t EXCEPT !.out = out, !.next = t.next + 1,
                                        !.state = IF t.next = t.hi THEN "done"
                                                  ELSE "running"]]
    /\ UNCHANGED <<pc, args, ds_prep, cmor, warned, steps, ret>>

\* without vectorize the task passes the kernel its whole chunk, the outer
\* dimension in front of the core dimensions; the kernel is outside this
\* code: it treats the extra dimension slice by slice or rejects the arrays
invoke_kernel_block ==
    /\ pc = "computing"
    /\ ~ufunc(args.fn).vectorize
    /\ \E i \in 1..Len(tasks), rejects \in BOOLEAN :
          LET t == tasks[i]
              out == [k \in 1..(t.hi - t.lo + 1) |->
                         kernel_result(ufunc(args.fn).kernel,
                                       args.input[t.lo + k - 1])]
          IN  /\ t.state = "running"
              /\ calls' = calls \cup {[task |-> i,
                                       outer |-> [k \in 1..(t.hi - t.lo + 1) |->
                                                     t.lo + k - 1],
                                       core_only |-> FALSE]}
              /\ tasks' = [tasks EXCEPT ![i] =
                              IF rejects THEN [t EXCEPT !.state = "failed"]
                              ELSE [t EXCEPT !.out = out, !.next = t.hi + 1,
                                             !.state = "done"]]
    /\ UNCHANGED <<pc, args, ds_prep, cmor, warned, steps, ret>>

\* the computation ends with the first failed task or with the last task done
compute_done ==
    /\ pc = "computing"
    /\ \/ /\ \E i \in 1..Len(tasks) : tasks[i].state = "failed"
          /\ ret' = Raise("ValueError")
       \/ /\ \A i \in 1..Len(tasks) : tasks[i].state = "done"
          /\ ret' = Return(concatenate(tasks))
    /\ pc' = "returned"
    /\ UNCHANGED <<args, ds_prep, cmor, warned, steps, tasks, calls>>

NextDispatch ==
    \/ apply_ufunc_call
    \/ start_task
    \/ invoke_kernel_vectorized
    \/ invoke_kernel_block
    \/ compute_done

SpecDispatch == InitDispatch /\ [][NextDispatch]_vars

---------------------------------------------------------------------------
(* interpolate_horizontal (pyremo/preproc/core.py).  lamem and phiem hold  *)
(* one coordinate field per stagger position (dimension pos); blagm and    *)
(* blaem are None or the blending weights.                                 *)

\* intersect: the index fields of every stagger position
intersect(lamgm, phigm, lamem, phiem) ==
    [indii |-> [p \in 1..Len(lamem) |->
                   [ii |-> <<lamgm, phigm>>, lam |-> lamem[p], phi |-> phiem[p]]],
     indjj |-> [p \in 1..Len(lamem) |->
                   [jj |-> <<lamgm, phigm>>, lam |-> lamem[p], phi |-> phiem[p]]]]

\* field.isel(pos=igr), igr counted from 0
isel(field, igr) == field[igr + 1]

\* if blagm is None or blaem is None
use_unblended_both_none(blagm, blaem) == blagm = None /\ blaem = None
use_unblended(blagm, blaem) == blagm = None \/ blaem = None

\* the one call of interp_horiz or interp_horiz_cm the function makes
interpolate_horizontal(da, lamem, phiem, lamgm, phigm, name, igr, blagm, blaem) ==
    LET name1 == IF name = PyNone THEN da.name ELSE name
        ind == intersect(lamgm, phigm, lamem, phiem)
        common == [da |-> da, lamgm |-> lamgm, phigm |-> phigm,
                   lamem |-> isel(lamem, igr), phiem |-> isel(phiem, igr),
                   indii |-> isel(ind.indii, igr), indjj |-> isel(ind.indjj, igr),
                   name |-> name1]
    IN  IF use_unblended(blagm, blaem)
        THEN [kernel |-> "interp_horiz", with |-> common, weights |-> <<>>]
        ELSE [kernel |-> "interp_horiz_cm", with |-> common,
              weights |-> <<blagm, blaem>>]

\* the blending weights of the model
Weights == {None, <<1, 2>>}

InitHoriz ==
    /\ pc = "call"
    /\ args \in [da : [name : {"ta", "ps"}],
                 lamem : [1..MaxPos -> 1..2],
                 phiem : [1..MaxPos -> 3..4],
                 lamgm : {5},
                 phigm : {6},
                 name : {PyNone, "T"},
                 igr : 0..(MaxPos - 1),
                 blagm : Weights,
                 blaem : Weights]
    /\ Idle

interpolate_horizontal_call ==
    /\ pc = "call"
    /\ pc' = "returned"
    /\ LET call == interpolate_horizontal(args.da, args.lamem, args.phiem,
                       args.lamgm, args.phigm, args.name, args.igr,
                       args.blagm, args.blaem)
       IN  /\ calls' = calls \cup {[nth |-> Cardinality(calls) + 1, call |-> call]}
           /\ ret' = Return(kernel_result(call.kernel, call.with))
    /\ UNCHANGED <<args, ds_prep, cmor, warned, steps, tasks>>

NextHoriz == interpolate_horizontal_call

SpecHoriz == InitHoriz /\ [][NextHoriz]_vars

---------------------------------------------------------------------------
(* Properties of _get_bnds.                                                *)

\* the coordinate values are whole numbers: v[i] as an integer (0-based)
IntAt(values, i) == values[i + 1][1]

\* the rational b equals n / 2
IsHalfOf(b, n) == b[2] > 0 /\ 2 * b[1] = n * b[2]

StrictlyIncreasing(q) == \A i \in 1..(Len(q) - 1) : RLt(q[i], q[i + 1])

EvenlySpaced(q) ==
    \A i \in 2..(Len(q) - 1) : RSub(q[i], q[i - 1]) = RSub(q[i + 1], q[i])

\* midpoint recovery: the mean of each pair of adjacent boundaries
Midpoints(b) == [i \in 1..(Len(b) - 1) |-> RDiv(RAdd(b[i], b[i + 1]), Num(2))]

\* C3: for N >= 2 midpoints _get_bnds returns N+1 boundaries, none unset, with
\* bounds[0] = v[0] - (v[1]-v[0])/2, bounds[N] = v[N-1] + (v[N-1]-v[N-2])/2 and
\* bounds[i] = v[i] - (v[i]-v[i-1])/2 for i in 1..N-1; for N < 2 it raises.
C3_GetBndsFormula ==
    pc = "returned" =>
        LET v == args.values
            N == Len(v)
        IN  IF N >= 2
            THEN /\ ret.ok
                 /\ Len(ret.val) = N + 1
                 /\ \A k \in 1..(N + 1) : ret.val[k] # None
                 /\ IsHalfOf(ret.val[1], 3 * IntAt(v, 0) - IntAt(v, 1))
                 /\ IsHalfOf(ret.val[N + 1], 3 * IntAt(v, N - 1) - IntAt(v, N - 2))
                 /\ \A i \in 1..(N - 1) :
                        IsHalfOf(ret.val[i + 1], IntAt(v, i) + IntAt(v, i - 1))
            ELSE /\ ~ret.ok
                 /\ ret.val = None

C3_Witness ==
    /\ pc = "returned"
    /\ Len(args.values) = 3
    /\ ret.ok
    /\ ret.val[2] = Rat(1, 2)

C3_WitnessShort ==
    /\ pc = "returned"
    /\ Len(args.values) = 1
    /\ ~ret.ok

\* C4 as stated: for every strictly increasing midpoint sequence of length
\* >= 2 the boundaries are strictly increasing and the means of adjacent
\* boundaries are the original midpoints.
C4_RoundTripAnySpacing ==
    (pc = "returned" /\ Len(args.values) >= 2 /\ StrictlyIncreasing(args.values)) =>
        /\ ret.ok
        /\ StrictlyIncreasing(ret.val)
        /\ Midpoints(ret.val) = args.values

\* C4 amended: for every strictly increasing midpoint sequence of length >= 2
\* the boundaries are strictly increasing, and the means of adjacent
\* boundaries are the original midpoints exactly when the midpoints are
\* evenly spaced.
C4_RoundTripEvenSpacing ==
    (pc = "returned" /\ Len(args.values) >= 2 /\ StrictlyIncreasing(args.values)) =>
        /\ ret.ok
        /\ StrictlyIncreasing(ret.val)
        /\ (Midpoints(ret.val) = args.values) <=> EvenlySpaced(args.values)

C4_Witness ==
    /\ pc = "returned"
    /\ Len(args.values) = 3
    /\ StrictlyIncreasing(args.values)
    /\ ~EvenlySpaced(args.values)
    /\ ret.ok
    /\ Midpoints(ret.val) # args.values

---------------------------------------------------------------------------
(* Properties of prepare_variable.                                         *)

\* C9: a name of the name-mapping table is resolved from the table (the raw
\* variable of its entry); any other name is resolved only with allow_derive,
\* from the derivation registry; a name outside the table with no allow_derive
\* or a failing derivation makes the call raise an error that names the
\* variable, and no dataset is returned.
C9_ResolveOrFail ==
    pc = "returned" =>
        LET inTable == args.varname \in DOMAIN VarTable
            raw == args.ds.data.name
            derived == /\ args.varname \in DOMAIN Derivations
                       /\ raw = Derivations[args.varname]
                       /\ args.ds.pole
        IN  /\ (inTable /\ ret.ok) =>
                /\ raw = VarTable[args.varname].variable
                /\ ret.val.data.name = VarTable[args.varname].cf_name
            /\ (~inTable /\ ret.ok) =>
                /\ args.allow_derive = "True"
                /\ derived
                /\ ret.val.data.name = args.varname
            /\ (~inTable /\ (args.allow_derive # "True" \/ ~derived)) =>
                /\ ~ret.ok
                /\ ret.err.name = args.varname
                /\ ret.val = None

C9_Witness ==
    /\ pc = "returned"
    /\ args.varname = "pr"
    /\ args.allow_derive = "True"
    /\ args.ds.data.name = "TEMP2"
    /\ ~ret.ok
    /\ ret.err.name = "pr"

C9_WitnessDerived ==
    /\ pc = "returned"
    /\ args.varname = "pr"
    /\ ret.ok
    /\ ret.val.data.name = "pr"

\* the domain identifier the call has: the argument, else the attribute
DomainGiven == args.CORDEX_domain # PyNone \/ args.ds.CORDEX_domain # NoAttr
DomainUsed ==
    IF args.CORDEX_domain # PyNone THEN args.CORDEX_domain ELSE args.ds.CORDEX_domain

\* out is what the inclusive range of the declared coordinates keeps of in
CroppedTo(out, in, declared) ==
    /\ Range(out) \subseteq Range(in)
    /\ \A c \in Range(out) :
          /\ \E lo \in Range(declared) : RLe(lo, c)
          /\ \E hi \in Range(declared) : RLe(c, hi)
    /\ \A c \in Range(in) :
          ((\E lo \in Range(declared) : RLe(lo, c))
            /\ (\E hi \in Range(declared) : RLe(c, hi))) => c \in Range(out)

\* C10: with a domain identifier given or found on the dataset the rlon and
\* rlat values of the output are a subset of the input's, lie in the inclusive
\* [min, max] of the domain's declared coordinates, and every input value in
\* that range is kept; with neither the grid is left as it is and the call
\* warns; it warns in no other case.
C10_CropToDomain ==
    pc = "returned" =>
        /\ (NoDomainWarning \in warned) <=> ~DomainGiven
        /\ (ret.ok /\ DomainGiven) =>
              /\ CroppedTo(ret.val.rlon, args.ds.rlon, DomainTable[DomainUsed].rlon)
              /\ CroppedTo(ret.val.rlat, args.ds.rlat, DomainTable[DomainUsed].rlat)
              /\ DOMAIN ret.val.data.values = Range(ret.val.rlon) \X Range(ret.val.rlat)
        /\ (ret.ok /\ ~DomainGiven) =>
              /\ ret.val.rlon = args.ds.rlon
              /\ ret.val.rlat = args.ds.rlat

C10_Witness ==
    /\ pc = "returned"
    /\ ret.ok
    /\ args.CORDEX_domain = "EUR"
    /\ Len(args.ds.rlon) = 3
    /\ Len(ret.val.rlon) = 2
    /\ Len(ret.val.rlat) = 1

C10_WitnessNoDomain ==
    /\ pc = "returned"
    /\ ret.ok
    /\ ~DomainGiven
    /\ NoDomainWarning \in warned

---------------------------------------------------------------------------
(* Properties of _units_convert and _resample.                             *)

\* the table requires units for the variable, and they are not its units
UnitsMismatch(da, table) ==
    /\ da.name \in DOMAIN table
    /\ da.units # table[da.name].units

\* the number r, in lowest terms, is the whole number x divided by n: its
\* denominator divides n (stated without the product r[1] * n, which leaves
\* the range of the model checker's integers)
IsQuotient(r, x, n) ==
    /\ x[2] = 1
    /\ r[2] > 0
    /\ n % r[2] = 0
    /\ r[1] * (n \div r[2]) = x[1]

ConversionWarned == \E w \in warned : w.msg = "converting units {} to {}"

\* C5: on a units mismatch, source units "mm" give every value divided by
\* 86400 and the units "kg m-2 s-1"; source units "kg/kg" give the values
\* unchanged and the units "1"; both emit a warning.
C5_ConvertRules ==
    (pc = "returned" /\ UnitsMismatch(args.da, args.table)) =>
        /\ args.da.units = "mm" =>
              /\ ret.ok
              /\ ret.val.units = "kg m-2 s-1"
              /\ DOMAIN ret.val.values = DOMAIN args.da.values
              /\ \A p \in DOMAIN args.da.values :
                    IsQuotient(ret.val.values[p], args.da.values[p], 86400)
              /\ ConversionWarned
        /\ args.da.units = "kg/kg" =>
              /\ ret.ok
              /\ ret.val.units = "1"
              /\ ret.val.values = args.da.values
              /\ ConversionWarned

C5_Witness ==
    /\ pc = "returned"
    /\ UnitsMismatch(args.da, args.table)
    /\ args.da.units = "mm"
    /\ ret.ok
    /\ \E p \in DOMAIN ret.val.values : ret.val.values[p] = Num(1)

C5_WitnessKgKg ==
    /\ pc = "returned"
    /\ UnitsMismatch(args.da, args.table)
    /\ args.da.units = "kg/kg"
    /\ ret.ok

\* C8: a time_cell_method other than "point" and "mean" makes _resample raise
\* an error naming the method, whatever the other arguments; nothing is
\* resampled.
C8_UnknownMethodRaises ==
    (pc = "returned" /\ args.time_cell_method \notin {"point", "mean"}) =>
        /\ ~ret.ok
        /\ ret.val = None
        /\ ret.err.name = args.time_cell_method

C8_Witness ==
    /\ pc = "returned"
    /\ args.time_cell_method = "sum"
    /\ args.time_offset = "True"
    /\ ~ret.ok

---------------------------------------------------------------------------
(* Properties of cmorize_variable.                                         *)

\* the steps of a call that runs to its end
StepOrder ==
    IF args.allow_units_convert = "True"
    THEN <<"prepare", "units", "setup", "grid", "write">>
    ELSE <<"prepare", "setup", "grid", "write">>

IsPrefix(p, q) == Len(p) <= Len(q) /\ \A i \in 1..Len(p) : p[i] = q[i]

\* the steps are entered in the fixed order, each once; a call that returns
\* has entered them all; a call that failed hands the exception to the caller
StepsInOrder ==
    /\ IsPrefix(steps, StepOrder)
    /\ pc = "done" => (steps = StepOrder /\ ret.ok)
    /\ pc = "failed" => (~ret.ok /\ ret # Running)
    /\ pc \notin {"done", "failed"} => (ret = Running /\ pc = StepOrder[Len(steps) + 1])

\* after a failure nothing more happens: no later step, no retry
FailureEndsCall == pc = "failed" => (steps' = steps /\ pc' = pc /\ ret' = ret /\ cmor' = cmor)

\* C1: the steps of cmorize_variable run in the order preparation, units
\* reconciliation (only with allow_units_convert True), session setup,
\* axis/grid construction, write; a failing step ends the call with its
\* failure, no later step is run and none is run again.
C1_StepOrder == []StepsInOrder /\ [][FailureEndsCall]_vars

C1_Witness ==
    /\ pc = "done"
    /\ args.allow_units_convert = "True"
    /\ steps = <<"prepare", "units", "setup", "grid", "write">>

C1_WitnessFailed ==
    /\ pc = "failed"
    /\ steps = <<"prepare", "setup", "grid">>

\* the call has ended: it returned, or it failed in axis/grid construction or
\* in the write
EndedAfterSetup ==
    \/ pc = "done"
    \/ pc = "failed" /\ steps[Len(steps)] \in {"grid", "write"}

\* C2 as stated: a call that has opened the writer session and has ended, by
\* returning or by failing in axis/grid construction or in the write, has
\* opened the session exactly once and closed it exactly once.
C2_SessionOpenedAndClosedOnce ==
    (EndedAfterSetup /\ cmor.setups >= 1) =>
        (cmor.setups = 1 /\ cmor.closes = 1)

\* the variable prepare_variable hands to the later steps
Prepared ==
    prepare_variable(args.ds, args.varname, args.CORDEX_domain,
                     args.time_units, args.squeeze, args.allow_derive)

UnitsStepDone == Len(steps) >= 2 /\ steps[2] = "units"

\* C6: units reconciliation of a variable whose units differ from the
\* table's and are neither "mm" nor "kg/kg" raises and yields no converted
\* variable; cmorize_variable then has failed with no writer session set up and
\* no file written.
C6_NoRuleFails ==
    (/\ UnitsStepDone
     /\ UnitsMismatch(Prepared.val.data, args.cmor_table)
     /\ Prepared.val.data.units \notin {"mm", "kg/kg"}) =>
        /\ pc = "failed"
        /\ ~ret.ok
        /\ ret.val = None
        /\ ds_prep = Prepared.val
        /\ steps = <<"prepare", "units">>
        /\ cmor = CmorInit

C6_Witness ==
    /\ pc = "failed"
    /\ UnitsStepDone
    /\ UnitsMismatch(Prepared.val.data, args.cmor_table)
    /\ Prepared.val.data.units = "m"
    /\ ret.err.msg = "KeyError"

\* the call converts nothing: the units agree, or conversion is not allowed
NoConversionCase ==
    \/ args.allow_units_convert # "True"
    \/ (Prepared.ok /\ ~UnitsMismatch(Prepared.val.data, args.cmor_table))

\* C7: a call that returns has written one file and returns its path; when
\* the units of the prepared variable equal the table's, or
\* allow_units_convert is not set, the variable handed to the writer is the
\* prepared one, values and units, and no conversion warning is emitted.
C7_OneFileNoConversion ==
    /\ pc = "done" =>
          /\ Len(cmor.files) = 1
          /\ ret.val = cmor.files[1]
          /\ cmor.closes = 1
    /\ NoConversionCase =>
          /\ ~ConversionWarned
          /\ ds_prep \in {NoDataset, Prepared.val}
          /\ pc = "done" => cmor.written = Prepared.val.data

C7_Witness ==
    /\ pc = "done"
    /\ args.allow_units_convert = "True"
    /\ Prepared.val.data.units = "K"
    /\ ~UnitsMismatch(Prepared.val.data, args.cmor_table)
    /\ cmor.written = Prepared.val.data

C7_WitnessNotAllowed ==
    /\ pc = "done"
    /\ args.allow_units_convert = "False"
    /\ UnitsMismatch(Prepared.val.data, args.cmor_table)
    /\ cmor.written.units = "mm"

---------------------------------------------------------------------------
(* Properties of get_vc.                                                   *)

\* the bound variables get_vc reads, when the dataset has them
HasAk == \E n \in {"ap_bnds", "a_bnds"} : n \in DOMAIN args.ds.bnds
HasBk == "b_bnds" \in DOMAIN args.ds.bnds
AkUsed ==
    IF "a_bnds" \in DOMAIN args.ds.bnds
    THEN args.ds.bnds["a_bnds"] ELSE args.ds.bnds["ap_bnds"]
BkUsed == args.ds.bnds["b_bnds"]

\* out[first .. first + N - 1] (0-based) are the upper bounds of raw, last
\* level first
HoldsFlipped(out, first, raw) ==
    \A i \in 0..(Len(raw) - 1) : out[first + i + 1] = raw[Len(raw) - i][2]

\* C11: with N levels of bounds get_vc returns ak and bk of length N+1 for
\* every value of "positive"; with "down" the flipped bounds are at the
\* indices 0..N-1 and the last entry is the default (ak 0, bk 1), with any
\* other value they are at 1..N and the first entry is the default; get_vc
\* raises when the dataset has neither ap_bnds nor a_bnds, or no b_bnds.
C11_VcLengthAndPlacement ==
    pc = "returned" =>
        /\ (~HasAk \/ ~HasBk) => ~ret.ok
        /\ ret.ok =>
              LET N == Len(AkUsed)
              IN  /\ Len(ret.val.ak) = N + 1
                  /\ Len(ret.val.bk) = N + 1
                  /\ IF args.ds.positive = "down"
                     THEN /\ HoldsFlipped(ret.val.ak, 0, AkUsed)
                          /\ HoldsFlipped(ret.val.bk, 0, BkUsed)
                          /\ ret.val.ak[N + 1] = Num(0)
                          /\ ret.val.bk[N + 1] = Num(1)
                     ELSE /\ HoldsFlipped(ret.val.ak, 1, AkUsed)
                          /\ HoldsFlipped(ret.val.bk, 1, BkUsed)
                          /\ ret.val.ak[1] = Num(0)
                          /\ ret.val.bk[1] = Num(1)

C11_Witness ==
    /\ pc = "returned"
    /\ ret.ok
    /\ args.ds.positive = "down"
    /\ Len(AkUsed) = 3
    /\ ret.val.ak[4] = Num(0)

C11_WitnessUp ==
    /\ pc = "returned"
    /\ ret.ok
    /\ args.ds.positive = "up"
    /\ Len(AkUsed) = 3
    /\ ret.val.bk[1] = Num(1)

C11_WitnessNoBounds ==
    /\ pc = "returned"
    /\ ~HasAk
    /\ ~ret.ok

\* the entries of out that get_vc took from the bounds
BoundPart(out, positive) ==
    LET first == IF positive = "down" THEN 0 ELSE 1
    IN  [k \in 1..(Len(out) - 1) |-> out[first + k]]

\* what get_vc returns for the same bounds with the other orientation
OtherOrientation ==
    get_vc([args.ds EXCEPT !.positive = IF @ = "down" THEN "up" ELSE "down"])

\* C12 as stated: of the two orientations one has its bound values reversed
\* and the other has them in their stored order.
C12_ReversedForOneOrientation ==
    (pc = "returned" /\ ret.ok) =>
        LET mine == BoundPart(ret.val.ak, args.ds.positive)
            other == BoundPart(OtherOrientation.val.ak,
                               IF args.ds.positive = "down" THEN "up" ELSE "down")
            stored == column1(AkUsed)
        IN  \/ (mine = flip(stored) /\ other = stored)
            \/ (mine = stored /\ other = flip(stored))

---------------------------------------------------------------------------
(* Properties of convert_units.                                            *)

\* the variable is in the dataset and has no units attribute
LacksUnits(var) == var.present /\ var.units = NoAttr

\* out has the values and the units given
ConvertedTo(out, values, to) == out.units = to /\ out.values = values

\* the number x times 100 is the number y
IsHundredth(x, y) == x[2] > 0 /\ x[1] * 100 * y[2] = y[1] * x[2]

\* C13: sftlf in "%" has every value multiplied by 0.01, so that values of
\* [0, 100] end in [0, 1], and gets the dimensionless units; sftlf without a
\* units attribute is left as it is, with a warning and no error; tos and
\* orog follow the same rule, each whatever the attributes of the others.
C13_ConvertUnits ==
    pc = "returned" =>
        /\ ret.ok
        /\ (args.ds.sftlf.present /\ args.ds.sftlf.units = "%") =>
              /\ ret.val.sftlf.units = PyInt1
              /\ Len(ret.val.sftlf.values) = Len(args.ds.sftlf.values)
              /\ \A k \in 1..Len(args.ds.sftlf.values) :
                    /\ IsHundredth(ret.val.sftlf.values[k], args.ds.sftlf.values[k])
                    /\ RLe(Num(0), ret.val.sftlf.values[k])
                    /\ RLe(ret.val.sftlf.values[k], Num(1))
        /\ LacksUnits(args.ds.sftlf) =>
              (ret.val.sftlf = args.ds.sftlf /\ SftlfWarning \in warned)
        /\ LacksUnits(args.ds.tos) =>
              (ret.val.tos = args.ds.tos /\ TosWarning \in warned)
        /\ LacksUnits(args.ds.orog) =>
              (ret.val.orog = args.ds.orog /\ OrogWarning \in warned)
        /\ (args.ds.tos.present /\ args.ds.tos.units = "degC") =>
              ConvertedTo(ret.val.tos,
                          [k \in 1..Len(args.ds.tos.values) |->
                              RAdd(args.ds.tos.values[k], Rat(2735, 10))], "K")
        /\ (args.ds.orog.present /\ args.ds.orog.units = "m") =>
              ConvertedTo(ret.val.orog,
                          [k \in 1..Len(args.ds.orog.values) |->
                              [factor |-> args.ds.orog.values[k],
                               times |-> "9.806805923"]], "m2 s-2")

C13_Witness ==
    /\ pc = "returned"
    /\ LacksUnits(args.ds.sftlf)
    /\ args.ds.sftlf.values = <<Num(50), Num(100)>>
    /\ args.ds.tos.units = "degC"
    /\ ret.val.tos.units = "K"
    /\ ret.val.sftlf.values = <<Num(50), Num(100)>>
    /\ SftlfWarning \in warned

C13_WitnessPercent ==
    /\ pc = "returned"
    /\ args.ds.sftlf.units = "%"
    /\ ret.val.sftlf.values = <<Rat(1, 2), Num(1)>>
    /\ LacksUnits(args.ds.orog)

---------------------------------------------------------------------------
(* Properties of the kernel dispatch.                                      *)

\* the invocations that cover the outer index k
CallsFor(k) == {c \in calls : \E j \in 1..Len(c.outer) : c.outer[j] = k}

\* the result has the input's outer length and order
OuterPreserved ==
    /\ Len(ret.val) = Len(args.input)
    /\ \A k \in 1..Len(args.input) :
          ret.val[k] = kernel_result(ufunc(args.fn).kernel, args.input[k])

\* C14: each of geopotential, relative_humidity and interpolate_vertical
\* makes one kernel invocation per outer (time) index, with only the core
\* dimensions passed, and the assembled result has the outer length and
\* order of the input, whatever the number of workers and the order in
\* which the invocations are evaluated.
C14_OneInvocationPerOuterIndex ==
    pc = "returned" =>
        /\ \A k \in 1..Len(args.input) : Cardinality(CallsFor(k)) = 1
        /\ \A c \in calls : c.core_only /\ Len(c.outer) = 1
        /\ ret.ok => OuterPreserved

\* the same statement for the two operations that pass vectorize=True
VectorizedOnePerOuterIndex ==
    (pc = "returned" /\ args.fn # "geopotential") =>
        /\ \A k \in 1..Len(args.input) : Cardinality(CallsFor(k)) = 1
        /\ \A c \in calls : c.core_only /\ Len(c.outer) = 1
        /\ ret.ok /\ OuterPreserved

\* whatever geopotential returns has the outer length and order of the input
GeopotentialOuterPreserved ==
    (pc = "returned" /\ args.fn = "geopotential" /\ ret.ok) => OuterPreserved

---------------------------------------------------------------------------
(* Properties of interpolate_horizontal.                                   *)

\* both blending weight arrays are supplied
WeightsSupplied == args.blagm # None /\ args.blaem # None

\* the call was made with the fields of stagger position igr
AtPosition(call) ==
    /\ call.with.lamem = args.lamem[args.igr + 1]
    /\ call.with.phiem = args.phiem[args.igr + 1]
    /\ call.with.indii.lam = args.lamem[args.igr + 1]
    /\ call.with.indii.phi = args.phiem[args.igr + 1]
    /\ call.with.indjj.lam = args.lamem[args.igr + 1]
    /\ call.with.indjj.phi = args.phiem[args.igr + 1]

\* C15: interpolate_horizontal calls interp_horiz_cm exactly when both
\* blagm and blaem are supplied and interp_horiz otherwise, also when only
\* one of the two is supplied; it calls exactly one kernel, once, with the
\* coordinate and index fields of the stagger position igr.
C15_KernelChoice ==
    pc = "returned" =>
        /\ Cardinality(calls) = 1
        /\ \A c \in calls :
              /\ c.call.kernel \in {"interp_horiz", "interp_horiz_cm"}
              /\ c.call.kernel = "interp_horiz_cm" <=> WeightsSupplied
              /\ AtPosition(c.call)

C15_Witness ==
    /\ pc = "returned"
    /\ args.blagm # None
    /\ args.blaem = None
    /\ args.igr = 1
    /\ args.lamem = <<1, 2>>
    /\ \E c \in calls : c.call.kernel = "interp_horiz" /\ c.call.with.lamem = 2

C15_WitnessBlended ==
    /\ pc = "returned"
    /\ WeightsSupplied
    /\ args.igr = 0
    /\ \E c \in calls : c.call.kernel = "interp_horiz_cm"

---------------------------------------------------------------------------
(* The units _units_convert returns.                                       *)

\* C16: whenever _units_convert returns a variable, whatever its source
\* units and the units the table requires, the units attribute of the
\* returned variable is the units the table requires for it.
C16_ReturnedUnitsAreTableUnits ==
    (pc = "returned" /\ ret.ok) =>
        ret.val.units = args.table[args.da.name].units

\* the returned units are the table's or those of the rule applied
ReturnedUnitsOfTableOrRule ==
    (pc = "returned" /\ ret.ok) =>
        \/ ret.val.units = args.table[args.da.name].units
        \/ /\ args.da.units \in DOMAIN units_convert_rules
           /\ ret.val.units = units_convert_rules[args.da.units].units

=============================================================================
